---- MODULE Spec2Model ----
(***************************************************************************)
(* Alpay's Advanced Fractal Sort (src/main.cpp) as a state machine.        *)
(*                                                                         *)
(* The program is four functions over std::vector<int>:                    *)
(*   alpayTripleFixBidirectional   the bidirectional triple pass           *)
(*   alpayTripleSortPivotArray     the same pass over a whole vector       *)
(*   alpayMultiBucketMerge         the min-heap k-way merge                *)
(*   alpayFractalSortAdvanced      the recursive driver                    *)
(*                                                                         *)
(* A C++ vector is a TLA+ sequence; C++ index i is sequence index i + 1.   *)
(* Every index written below (start, end, i, b, iIndex, ...) is the C++    *)
(* index, and At/SwapAt do the shift.                                      *)
(*                                                                         *)
(* Specifications:                                                         *)
(*   SpecFix                one call of alpayTripleFixBidirectional, one   *)
(*                          action per iteration of its while loop         *)
(*   SpecMerge              one call of alpayMultiBucketMerge, one action  *)
(*                          per iteration of its while loop                *)
(*   SpecPivot              the sample/pivot index arithmetic of the       *)
(*                          driver for every range size up to PivotMaxSize *)
(*   SpecSort               one call of alpayFractalSortAdvanced, with its *)
(*                          call stack                                     *)
(*   SpecFrame              a call of either in-place function             *)
(***************************************************************************)
EXTENDS Integers, Sequences, FiniteSets

VARIABLES
    arr,       \* the caller's vector
    start,     \* first index of the range passed by the caller
    end,       \* last index of the range passed by the caller
    arr0,      \* history: arr as it was when the call was made
    pc,        \* position of control of the outermost call
    changed,   \* alpayTripleFixBidirectional: the flag of its while loop
    cycles,    \* history: forward+backward cycles the while loop has run
    stack,     \* alpayFractalSortAdvanced: its activation records
    buckets,   \* alpayMultiBucketMerge: its argument buckets
    dest,      \* alpayMultiBucketMerge: its argument dest
    minHeap,   \* alpayMultiBucketMerge: the priority queue, as a set of items
    consumed,  \* history: per bucket, how many of its elements are in dest
    samples,   \* SpecPivot: the sample vector (its elements stand for slots)
    reads,     \* SpecPivot: the sample indices i * step read so far
    calls      \* history: calls of the driver that went on to partition

vars == <<arr, start, end, arr0, pc, changed, cycles, stack,
          buckets, dest, minHeap, consumed, samples, reads, calls>>

(***************************************************************************)
(* Bounds of the model.                                                    *)
(***************************************************************************)
FixMaxLen == 6       \* SpecFix: longest vector
FixMaxVal == 2       \* SpecFix: elements are 0..FixMaxVal
MaxPad == 1          \* most elements of the vector before start, and after end
MergeMaxK == 2       \* SpecMerge: most buckets
MergeMaxLen == 2     \* SpecMerge: longest bucket
MergeMaxVal == 1     \* SpecMerge: elements are 0..MergeMaxVal
PivotMaxSize == 400  \* SpecPivot: largest range size
SortSmallLen == 4    \* SpecSort: longest vector of the small inputs
SortMaxLen == 14     \* SpecSort: longest vector of the large inputs
SortMaxVal == 2      \* SpecSort: elements are 0..SortMaxVal
MaxDepth == 3        \* SpecSort: deepest call stack followed

(***************************************************************************)
(* Program constants.                                                      *)
(***************************************************************************)
ALPAY_SMALL_THRESH == 12
PIVOT_SAMPLE_FACTOR == 2         \* 2.0
PIVOT_OUTLIER_PERCENT == 15      \* PIVOT_OUTLIER_FRAC = 0.15, in hundredths

(***************************************************************************)
(* Vectors.                                                                *)
(***************************************************************************)
At(a, i) == a[i + 1]

SwapAt(a, i, j) == [a EXCEPT ![i + 1] = a[j + 1], ![j + 1] = a[i + 1]]

Max(x, y) == IF x >= y THEN x ELSE y

SeqsUpTo(S, n) == UNION {[1..k -> S] : k \in 0..n}

\* TRUE.  TLC defers the evaluation of an operator's argument until it is
\* used; in a loop written as a recursion the deferred loop bodies pile up.
\* Testing Evaluated(x) in the loop condition has x computed at each turn.
Evaluated(x) == x = x

(***************************************************************************)
(* What the claims speak of.                                               *)
(***************************************************************************)
IsSortedRange(a, s, e) == \A i \in s..(e - 1) : At(a, i) <= At(a, i + 1)

IsSorted(a) == IsSortedRange(a, 0, Len(a) - 1)

Elems(a) == {a[k] : k \in DOMAIN a}

Count(a, v) == Cardinality({k \in DOMAIN a : a[k] = v})

SameMultiset(a, b) ==
    /\ Len(a) = Len(b)
    /\ \A v \in Elems(a) \cup Elems(b) : Count(a, v) = Count(b, v)

Slice(a, s, e) == [k \in 1..(e - s + 1) |-> At(a, s + k - 1)]

Inversions(a, s, e) ==
    Cardinality({p \in (s..e) \X (s..e) : p[1] < p[2] /\ At(a, p[1]) > At(a, p[2])})

RECURSIVE Concat(_)
Concat(ss) == IF ss = <<>> THEN <<>> ELSE Head(ss) \o Concat(Tail(ss))

RECURSIVE SumLen(_)
SumLen(ss) == IF ss = <<>> THEN 0 ELSE Len(Head(ss)) + SumLen(Tail(ss))

AllSorted(ss) == \A k \in DOMAIN ss : IsSorted(ss[k])

SameOutside(a, b, s, e) ==
    /\ Len(a) = Len(b)
    /\ \A i \in 0..(Len(a) - 1) : (i < s \/ i > e) => At(a, i) = At(b, i)

(***************************************************************************)
(* 1) Bidirectional triple pass.                                           *)
(* st is the pair (vector, changed) that the loop body updates.            *)
(***************************************************************************)
\* A compare-swap that also swaps equal neighbours.
CompareSwapEq(st, i) ==
    IF At(st.a, i) >= At(st.a, i + 1)
    THEN [a |-> SwapAt(st.a, i, i + 1), changed |-> TRUE]
    ELSE st

\* A compare-swap that swaps and forgets to set changed.
CompareSwapNoFlag(st, i) ==
    IF At(st.a, i) > At(st.a, i + 1)
    THEN [a |-> SwapAt(st.a, i, i + 1), changed |-> st.changed]
    ELSE st

\* if (arr[i] > arr[i + 1]) { std::swap(arr[i], arr[i + 1]); changed = true; }
CompareSwap(st, i) ==
    IF At(st.a, i) > At(st.a, i + 1)
    THEN [a |-> SwapAt(st.a, i, i + 1), changed |-> TRUE]
    ELSE st

\* The three compare-swaps of one loop body, on (i, i+1), (i+1, i+2), (i, i+1).
TripleStep(st, i) == CompareSwap(CompareSwap(CompareSwap(st, i), i + 1), i)

\* for (int i = start; i + 2 <= end; i++)
RECURSIVE ForwardPass(_, _, _)
ForwardPass(st, i, e) ==
    IF i + 2 <= e /\ Evaluated(st)
    THEN ForwardPass(TripleStep(st, i), i + 1, e)
    ELSE st

\* for (int i = end - 2; i >= start; i--)
RECURSIVE BackwardPass(_, _, _)
BackwardPass(st, i, s) ==
    IF i >= s /\ Evaluated(st)
    THEN BackwardPass(TripleStep(st, i), i - 1, s)
    ELSE st

\* One iteration of while (changed): changed = false, forward pass, backward pass.
FixCycle(a, s, e) ==
    BackwardPass(ForwardPass([a |-> a, changed |-> FALSE], s, e), e - 2, s)

\* while (changed) { ... }, entered with changed = true.
RECURSIVE FixLoop(_, _, _)
FixLoop(a, s, e) ==
    LET st == FixCycle(a, s, e)
    IN  IF st.changed THEN FixLoop(st.a, s, e) ELSE st.a

\* The size-2 case: one compare-swap.
FixPair(a, s) == IF At(a, s) > At(a, s + 1) THEN SwapAt(a, s, s + 1) ELSE a

\* A triple fix that runs its loop body once and stops.
TripleFixOneCycle(a, s, e) ==
    IF s >= e THEN a
    ELSE IF e - s = 1 THEN FixPair(a, s)
    ELSE FixCycle(a, s, e).a

\* The whole function, as the callers in the driver use it.
alpayTripleFixBidirectional(a, s, e) ==
    IF s >= e THEN a
    ELSE IF e - s = 1 THEN FixPair(a, s)
    ELSE FixLoop(a, s, e)

(***************************************************************************)
(* 3) Min-heap k-way merge.                                                *)
(* std::priority_queue<HeapItem, vector<HeapItem>, greater<HeapItem>> is   *)
(* modelled as the set of the items it holds: every item pushed has its    *)
(* own (bIndex, iIndex), so a set loses nothing.  top() is an item that    *)
(* no other item is below under HeapItem::operator>, which compares value  *)
(* alone; which one of several items of equal value is on top depends on   *)
(* the library's heap layout, so the model lets it be any of them.         *)
(* `total` only feeds dest.reserve and is not modelled.                    *)
(***************************************************************************)
HeapItem(bks, b, i) == [value |-> At(At(bks, b), i), bIndex |-> b, iIndex |-> i]

\* Lines 73-78: the first item of every non-empty bucket.
HeapInit(bks) ==
    {HeapItem(bks, b, 0) : b \in {c \in 0..(Len(bks) - 1) : Len(At(bks, c)) > 0}}

\* A top() that takes the items of greatest value.
TopItemsMax(h) == {x \in h : \A y \in h : ~(y.value > x.value)}

\* minHeap.top(): the items no other item is less than.
TopItems(h) == {x \in h : \A y \in h : ~(x.value > y.value)}

\* A pop whose size check is off by one (nextIndex + 1 < size): the last
\* element of a bucket is never pushed.
HeapAfterPopShort(bks, h, top) ==
    (h \ {top}) \cup
        (IF top.iIndex + 2 < Len(At(bks, top.bIndex))
         THEN {HeapItem(bks, top.bIndex, top.iIndex + 1)}
         ELSE {})

\* Lines 85-92: pop, and push the popped bucket's next item if it has one.
HeapAfterPop(bks, h, top) ==
    (h \ {top}) \cup
        (IF top.iIndex + 1 < Len(At(bks, top.bIndex))
         THEN {HeapItem(bks, top.bIndex, top.iIndex + 1)}
         ELSE {})

\* Lines 83-93, run to the end; d is dest.
RECURSIVE MergeLoop(_, _, _)
MergeLoop(bks, h, d) ==
    IF h = {} \/ ~Evaluated(d) THEN d
    ELSE LET top == CHOOSE x \in TopItems(h) : TRUE
         IN  MergeLoop(bks, HeapAfterPop(bks, h, top), Append(d, top.value))

\* The whole function: what dest holds when it returns.  dest is a sequence
\* of values, the same whichever of several equal items is popped first.
alpayMultiBucketMerge(bks) == MergeLoop(bks, HeapInit(bks), <<>>)

(***************************************************************************)
(* 4) The driver: sample and pivot arithmetic (lines 106-132).             *)
(* The doubles of the source are computed in integers:                     *)
(*   (int)std::sqrt((double)size)  is the integer square root (the sizes   *)
(*       are far below 2^53 and sqrt is correctly rounded);                *)
(*   (int)(pivotCount * 2.0)       is 2 * pivotCount, exactly;             *)
(*   (int)(0.15 * n)               is (15 * n) \div 100: the double 0.15   *)
(*       lies below 0.15 by less than half an ulp relative to any          *)
(*       product, so 0.15 * n rounds to the integer 3n/20 whenever that is *)
(*       one, and is otherwise at least 1/20 away from an integer.         *)
(***************************************************************************)
ISqrt(n) == CHOOSE r \in 0..n : r * r <= n /\ (r + 1) * (r + 1) > n

\* int pivotCount = std::max(2, (int)std::sqrt((double)size));
PivotCount(size) == Max(2, ISqrt(size))

\* int pivotSampleCount = std::max(pivotCount, (int)(pivotCount * PIVOT_SAMPLE_FACTOR));
PivotSampleCount(pivotCount) == Max(pivotCount, pivotCount * PIVOT_SAMPLE_FACTOR)

\* int cut = (int)(PIVOT_OUTLIER_FRAC * samples.size());
Cut(n) == (PIVOT_OUTLIER_PERCENT * n) \div 100

\* if (cut * 2 < (int)samples.size() - pivotCount)
TrimGuard(smp, pivotCount) == Cut(Len(smp)) * 2 < Len(smp) - pivotCount

\* Lines 120-124: erase the first cut samples, then the last cut.
TrimSamples(smp, pivotCount) ==
    IF TrimGuard(smp, pivotCount)
    THEN LET cut == Cut(Len(smp))
             lower == SubSeq(smp, cut + 1, Len(smp))
         IN  SubSeq(lower, 1, Len(lower) - cut)
    ELSE smp

\* A stride rounded up instead of down.
StepCeil(m, pivotCount) == Max(1, (m + pivotCount - 1) \div pivotCount)

\* int step = std::max(1, (int)samples.size() / pivotCount);
Step(m, pivotCount) == Max(1, m \div pivotCount)

\* Lines 130-132: pivots[i] = samples[i * step].  A read past the end of
\* samples would be undefined behaviour; SpecPivot shows that no range size
\* up to PivotMaxSize produces one, so no outcome of such a read is modelled.
PickPivots(smp, pivotCount) ==
    [i \in 1..pivotCount |-> At(smp, (i - 1) * Step(Len(smp), pivotCount))]

\* void alpayTripleSortPivotArray(std::vector<int> &pivots)
alpayTripleSortPivotArray(pivots) ==
    alpayTripleFixBidirectional(pivots, 0, Len(pivots) - 1)

(***************************************************************************)
(* 4) The driver: distribute (lines 137-145) and copy back (159-161).      *)
(***************************************************************************)
\* A scan that also steps past a pivot equal to x only when x is greater.
RECURSIVE BucketScanGt(_, _, _)
BucketScanGt(x, pivots, b) ==
    IF b < Len(pivots) /\ x > At(pivots, b) THEN BucketScanGt(x, pivots, b + 1) ELSE b

\* while (b < pivotCount && x >= pivots[b]) b++;   entered with b = 0
RECURSIVE BucketScan(_, _, _)
BucketScan(x, pivots, b) ==
    IF b < Len(pivots) /\ x >= At(pivots, b) THEN BucketScan(x, pivots, b + 1) ELSE b

\* for (int i = start; i <= end; i++) buckets[b].push_back(arr[i]);
RECURSIVE DistributeFrom(_, _, _, _, _)
DistributeFrom(vec, i, e, pivots, bks) ==
    IF i > e \/ ~Evaluated(bks) THEN bks
    ELSE LET x == At(vec, i)
             b == BucketScan(x, pivots, 0)
         IN  DistributeFrom(vec, i + 1, e, pivots,
                            [bks EXCEPT ![b + 1] = Append(@, x)])

\* std::vector<std::vector<int>> buckets(pivotCount + 1), then the loop.
Distribute(vec, s, e, pivots) ==
    DistributeFrom(vec, s, e, pivots, [k \in 1..(Len(pivots) + 1) |-> <<>>])

\* A copy back that forgets the offset: arr[i] = mergedAll[i].
CopyBackFromZero(vec, s, merged) ==
    [k \in DOMAIN vec |-> IF k <= Len(merged) THEN merged[k] ELSE vec[k]]

\* for (i = 0; i < mergedAll.size(); i++) arr[start + i] = mergedAll[i];
\* A write past the end of arr would be undefined behaviour; mergedAll is
\* never longer than the range (C5, C8), so none is modelled.
CopyBack(vec, s, merged) ==
    [k \in DOMAIN vec |->
        IF s <= k - 1 /\ k - 1 < s + Len(merged) THEN merged[k - s] ELSE vec[k]]

(***************************************************************************)
(* SpecFix: one call alpayTripleFixBidirectional(arr, start, end).         *)
(***************************************************************************)
\* The ranges a caller may pass for a vector of length n: the valid ones,
\* 0 <= start <= end < n, and the empty ones, start > end, among those that
\* leave at most MaxPad elements on either side.
Ranges(n) ==
    {r \in (0..MaxPad) \X ((n - 1 - MaxPad)..(n - 1)) :
        r[1] > r[2] \/ (0 <= r[1] /\ r[1] <= r[2] /\ r[2] < n)}

Idle ==
    /\ stack = <<>>
    /\ buckets = <<>>
    /\ dest = <<>>
    /\ minHeap = {}
    /\ consumed = <<>>
    /\ samples = <<>>
    /\ reads = <<>>
    /\ calls = 0

InitFix ==
    /\ arr \in SeqsUpTo(0..FixMaxVal, FixMaxLen)
    /\ \E r \in Ranges(Len(arr)) : start = r[1] /\ end = r[2]
    /\ arr0 = arr
    /\ pc = "fix_call"
    /\ changed = FALSE
    /\ cycles = 0
    /\ Idle

\* Lines 20-28: the two early returns, or bool changed = true.
FixEntry ==
    /\ pc = "fix_call"
    /\ IF start >= end
       THEN arr' = arr /\ pc' = "done" /\ changed' = changed
       ELSE IF end - start = 1
            THEN arr' = FixPair(arr, start) /\ pc' = "done" /\ changed' = changed
            ELSE arr' = arr /\ pc' = "fix_while" /\ changed' = TRUE
    /\ UNCHANGED <<start, end, arr0, cycles, stack, buckets, dest, minHeap,
                   consumed, samples, reads, calls>>

\* Lines 29-43: the loop condition holds, one iteration of the body.
FixIterate ==
    /\ pc = "fix_while"
    /\ changed
    /\ LET st == FixCycle(arr, start, end)
       IN  arr' = st.a /\ changed' = st.changed
    /\ cycles' = cycles + 1
    /\ UNCHANGED <<start, end, arr0, pc, stack, buckets, dest, minHeap,
                   consumed, samples, reads, calls>>

\* Line 29: the loop condition fails, the function returns.
FixExit ==
    /\ pc = "fix_while"
    /\ ~changed
    /\ pc' = "done"
    /\ UNCHANGED <<arr, start, end, arr0, changed, cycles, stack, buckets,
                   dest, minHeap, consumed, samples, reads, calls>>

NextFix == FixEntry \/ FixIterate \/ FixExit

SpecFix == InitFix /\ [][NextFix]_vars

(***************************************************************************)
(* SpecMerge: one call alpayMultiBucketMerge(buckets, dest).               *)
(***************************************************************************)
InitMerge ==
    /\ buckets \in SeqsUpTo(SeqsUpTo(0..MergeMaxVal, MergeMaxLen), MergeMaxK)
    /\ dest \in SeqsUpTo({0}, 1)
    /\ minHeap = {}
    /\ consumed = [b \in DOMAIN buckets |-> 0]
    /\ pc = "merge_call"
    /\ arr = <<>> /\ arr0 = <<>> /\ start = 0 /\ end = -1
    /\ changed = FALSE /\ cycles = 0
    /\ stack = <<>> /\ samples = <<>> /\ reads = <<>> /\ calls = 0

\* Lines 67-81: fill the heap, dest.clear().
MergeInit ==
    /\ pc = "merge_call"
    /\ minHeap' = HeapInit(buckets)
    /\ dest' = <<>>
    /\ pc' = "merge_while"
    /\ UNCHANGED <<arr, start, end, arr0, changed, cycles, stack, buckets,
                   consumed, samples, reads, calls>>

\* Lines 83-93: one iteration of while (!minHeap.empty()).
MergeIterate ==
    /\ pc = "merge_while"
    /\ minHeap # {}
    /\ \E top \in TopItems(minHeap) :
        /\ dest' = Append(dest, top.value)
        /\ minHeap' = HeapAfterPop(buckets, minHeap, top)
        /\ consumed' = [consumed EXCEPT ![top.bIndex + 1] = @ + 1]
    /\ UNCHANGED <<arr, start, end, arr0, pc, changed, cycles, stack, buckets,
                   samples, reads, calls>>

\* Line 83: the heap is empty, the function returns.
MergeExit ==
    /\ pc = "merge_while"
    /\ minHeap = {}
    /\ pc' = "done"
    /\ UNCHANGED <<arr, start, end, arr0, changed, cycles, stack, buckets,
                   dest, minHeap, consumed, samples, reads, calls>>

NextMerge == MergeInit \/ MergeIterate \/ MergeExit

SpecMerge == InitMerge /\ [][NextMerge]_vars

(***************************************************************************)
(* SpecPivot: lines 106-132 for every range size from the threshold up to  *)
(* PivotMaxSize.  Only lengths and indices matter here, so element k of    *)
(* the sorted sample vector is the number k of the slot it was sorted      *)
(* into; reads records each index i * step the pivot loop reads.           *)
(***************************************************************************)
RangeSize == end - start + 1

InitPivot ==
    /\ start = 0
    /\ end \in ALPAY_SMALL_THRESH..(PivotMaxSize - 1)
    /\ pc = "pivot_sample"
    /\ samples = <<>>
    /\ reads = <<>>
    /\ arr = <<>> /\ arr0 = <<>> /\ changed = FALSE /\ cycles = 0
    /\ stack = <<>> /\ buckets = <<>> /\ dest = <<>> /\ minHeap = {}
    /\ consumed = <<>> /\ calls = 0

\* Lines 106-117: pivotSampleCount samples, sorted.
PivotGather ==
    /\ pc = "pivot_sample"
    /\ samples' = [k \in 1..PivotSampleCount(PivotCount(RangeSize)) |-> k - 1]
    /\ pc' = "pivot_trim"
    /\ UNCHANGED <<arr, start, end, arr0, changed, cycles, stack, buckets,
                   dest, minHeap, consumed, reads, calls>>

\* Lines 120-124: the guarded erases.
PivotTrim ==
    /\ pc = "pivot_trim"
    /\ samples' = TrimSamples(samples, PivotCount(RangeSize))
    /\ pc' = "pivot_pick"
    /\ UNCHANGED <<arr, start, end, arr0, changed, cycles, stack, buckets,
                   dest, minHeap, consumed, reads, calls>>

\* Lines 130-132: one iteration of the pivot loop, i = Len(reads).
PivotPick ==
    /\ pc = "pivot_pick"
    /\ Len(reads) < PivotCount(RangeSize)
    /\ reads' = Append(reads, Len(reads) * Step(Len(samples), PivotCount(RangeSize)))
    /\ UNCHANGED <<arr, start, end, arr0, pc, changed, cycles, stack, buckets,
                   dest, minHeap, consumed, samples, calls>>

\* Line 130: i = pivotCount, the loop ends.
PivotDone ==
    /\ pc = "pivot_pick"
    /\ Len(reads) = PivotCount(RangeSize)
    /\ pc' = "done"
    /\ UNCHANGED <<arr, start, end, arr0, changed, cycles, stack, buckets,
                   dest, minHeap, consumed, samples, reads, calls>>

NextPivot == PivotGather \/ PivotTrim \/ PivotPick \/ PivotDone

SpecPivot == InitPivot /\ [][NextPivot]_vars

(***************************************************************************)
(* SpecSort: one call alpayFractalSortAdvanced(arr, start, end).           *)
(*                                                                         *)
(* stack holds the activation records, the outermost first.  A record's    *)
(* vec is the vector its call was given by reference: arr for the          *)
(* outermost call, the caller's bucket for a recursive one.  The caller is *)
(* suspended while the callee runs and nothing else refers to the vector,  *)
(* so the callee works on vec and the vector is written back when the      *)
(* callee returns.                                                         *)
(*                                                                         *)
(* The inputs: every vector over 0..SortMaxVal of length up to             *)
(* SortSmallLen (the driver hands these to the triple pass) with the       *)
(* ranges of SpecFix, and, above the threshold, the vectors of length      *)
(* ALPAY_SMALL_THRESH + 1 .. SortMaxLen over 0..SortMaxVal in which each   *)
(* value above 0 occurs 0, 1 or n \div (SortMaxVal + 1) times, laid out    *)
(* descending, with a range that leaves 0 or MaxPad elements on either     *)
(* side.                                                                   *)
(***************************************************************************)
Frame(vec, s, e) ==
    [vec |-> vec, start |-> s, end |-> e, pc |-> "call",
     pivots |-> <<>>, buckets |-> <<>>, b |-> 0, mergedAll |-> <<>>]

Top == stack[Len(stack)]

TopSize == Top.end - Top.start + 1

\* Occurrences of the values 1..SortMaxVal in a large input of length n.
CountChoices(n) == [1..SortMaxVal -> {0, 1, n \div (SortMaxVal + 1)}]

RECURSIVE AtLeast(_, _)
AtLeast(c, v) == IF v > SortMaxVal THEN 0 ELSE c[v] + AtLeast(c, v + 1)

\* The descending vector of length n with c[v] elements equal to v >= 1.
Descending(n, c) ==
    [k \in 1..n |->
        IF k > AtLeast(c, 1) THEN 0
        ELSE CHOOSE v \in 1..SortMaxVal : AtLeast(c, v + 1) < k /\ k <= AtLeast(c, v)]

LargeInputs ==
    UNION {{Descending(n, c) : c \in CountChoices(n)} :
           n \in (ALPAY_SMALL_THRESH + 1)..SortMaxLen}

LargeRanges(n) == {0, MaxPad} \X {n - 1 - MaxPad, n - 1}

\* The vector and the range of a call of either in-place function.
SortInput ==
    /\ \/ /\ arr \in SeqsUpTo(0..SortMaxVal, SortSmallLen)
          /\ \E r \in Ranges(Len(arr)) : start = r[1] /\ end = r[2]
       \/ /\ arr \in LargeInputs
          /\ \E r \in LargeRanges(Len(arr)) : start = r[1] /\ end = r[2]
    /\ arr0 = arr

InitSort ==
    /\ SortInput
    /\ pc = "sort"
    /\ stack = <<Frame(arr, start, end)>>
    /\ calls = 0
    /\ changed = FALSE /\ cycles = 0
    /\ buckets = <<>> /\ dest = <<>> /\ minHeap = {} /\ consumed = <<>>
    /\ samples = <<>> /\ reads = <<>>

\* The top call returns, leaving v in the vector it was given.
Return(v) ==
    IF Len(stack) = 1
    THEN /\ arr' = v
         /\ stack' = <<>>
         /\ pc' = "done"
    ELSE /\ LET caller == stack[Len(stack) - 1]
           IN  stack' = [SubSeq(stack, 1, Len(stack) - 1) EXCEPT
                            ![Len(stack) - 1] =
                                [caller EXCEPT !.buckets[caller.b + 1] = v,
                                               !.b = caller.b + 1]]
         /\ UNCHANGED <<arr, pc>>

\* Lines 100-104: the range is small, the triple pass sorts it.
SortBase ==
    /\ pc = "sort"
    /\ Top.pc = "call"
    /\ TopSize <= ALPAY_SMALL_THRESH
    /\ Return(alpayTripleFixBidirectional(Top.vec, Top.start, Top.end))
    /\ UNCHANGED <<start, end, arr0, changed, cycles, buckets, dest, minHeap,
                   consumed, samples, reads, calls>>

\* Lines 106-134: draw the samples, sort and trim them, pick and sort the
\* pivots.  rIndex = start + rand() % size is any index of the range, so a
\* sample is the value at any index of the range, each draw on its own.
SortSample ==
    /\ pc = "sort"
    /\ Top.pc = "call"
    /\ TopSize > ALPAY_SMALL_THRESH
    /\ LET pivotCount == PivotCount(TopSize)
           values == {At(Top.vec, i) : i \in Top.start..Top.end}
       IN  \E drawn \in [1..PivotSampleCount(pivotCount) -> values] :
             LET sorted == alpayTripleFixBidirectional(drawn, 0, Len(drawn) - 1)
                 trimmed == TrimSamples(sorted, pivotCount)
                 pivots == alpayTripleSortPivotArray(PickPivots(trimmed, pivotCount))
             IN  stack' = [stack EXCEPT ![Len(stack)] =
                              [@ EXCEPT !.pc = "distribute", !.pivots = pivots]]
    /\ calls' = calls + 1
    /\ UNCHANGED <<arr, start, end, arr0, pc, changed, cycles, buckets, dest,
                   minHeap, consumed, samples, reads>>

\* Lines 137-145: distribute the range over pivotCount + 1 buckets.
SortDistribute ==
    /\ pc = "sort"
    /\ Top.pc = "distribute"
    /\ stack' = [stack EXCEPT ![Len(stack)] =
                     [@ EXCEPT !.pc = "recurse", !.b = 0,
                               !.buckets = Distribute(Top.vec, Top.start, Top.end,
                                                      Top.pivots)]]
    /\ UNCHANGED <<arr, start, end, arr0, pc, changed, cycles, buckets, dest,
                   minHeap, consumed, samples, reads, calls>>

\* Lines 148-150: the next bucket has more than one element, call on it.
\* The program's stack is finite and the model follows it MaxDepth deep.
SortRecurse ==
    /\ pc = "sort"
    /\ Top.pc = "recurse"
    /\ Top.b < Len(Top.buckets)
    /\ Len(At(Top.buckets, Top.b)) > 1
    /\ Len(stack) < MaxDepth
    /\ LET bucket == At(Top.buckets, Top.b)
       IN  stack' = Append(stack, Frame(bucket, 0, Len(bucket) - 1))
    /\ UNCHANGED <<arr, start, end, arr0, pc, changed, cycles, buckets, dest,
                   minHeap, consumed, samples, reads, calls>>

\* Line 149: the next bucket has at most one element, pass over it.
SortSkip ==
    /\ pc = "sort"
    /\ Top.pc = "recurse"
    /\ Top.b < Len(Top.buckets)
    /\ Len(At(Top.buckets, Top.b)) <= 1
    /\ stack' = [stack EXCEPT ![Len(stack)] = [@ EXCEPT !.b = Top.b + 1]]
    /\ UNCHANGED <<arr, start, end, arr0, pc, changed, cycles, buckets, dest,
                   minHeap, consumed, samples, reads, calls>>

\* Lines 155-156: every bucket is done, merge them.
SortMerge ==
    /\ pc = "sort"
    /\ Top.pc = "recurse"
    /\ Top.b = Len(Top.buckets)
    /\ stack' = [stack EXCEPT ![Len(stack)] =
                     [@ EXCEPT !.pc = "copy",
                               !.mergedAll = alpayMultiBucketMerge(Top.buckets)]]
    /\ UNCHANGED <<arr, start, end, arr0, pc, changed, cycles, buckets, dest,
                   minHeap, consumed, samples, reads, calls>>

\* Lines 159-162: copy the merged result back and return.
SortCopy ==
    /\ pc = "sort"
    /\ Top.pc = "copy"
    /\ Return(CopyBack(Top.vec, Top.start, Top.mergedAll))
    /\ UNCHANGED <<start, end, arr0, changed, cycles, buckets, dest, minHeap,
                   consumed, samples, reads, calls>>

NextSort ==
    \/ SortBase
    \/ SortSample
    \/ SortDistribute
    \/ SortRecurse
    \/ SortSkip
    \/ SortMerge
    \/ SortCopy

SpecSort == InitSort /\ [][NextSort]_vars

(***************************************************************************)
(* SpecFrame: a call of either function that sorts a range in place.       *)
(***************************************************************************)
InitFixLarge ==
    /\ SortInput
    /\ pc = "fix_call"
    /\ changed = FALSE
    /\ cycles = 0
    /\ Idle

SpecFrame == (InitFixLarge \/ InitSort) /\ [][NextFix \/ NextSort]_vars

(***************************************************************************)
(* C4: when alpayTripleFixBidirectional(seq, start, end) returns from a    *)
(* call on a valid range 0 <= start <= end < len, seq[start..end] is       *)
(* non-decreasing and is a permutation of what it was at the call.         *)
(***************************************************************************)
C4_FixSortsRange ==
    (pc = "done" /\ 0 <= start /\ start <= end /\ end < Len(arr0)) =>
        /\ IsSortedRange(arr, start, end)
        /\ SameMultiset(Slice(arr, start, end), Slice(arr0, start, end))

\* A range of six or more that took two swapping cycles and a final clean one.
C4_Witness ==
    /\ pc = "done"
    /\ end - start >= 5
    /\ cycles >= 3
    /\ ~IsSortedRange(arr0, start, end)
    /\ IsSortedRange(arr, start, end)

(***************************************************************************)
(* C9: in the loop of alpayTripleFixBidirectional (range size >= 3) a      *)
(* cycle that swaps strictly decreases the number of inversions of         *)
(* seq[start..end]; a cycle without a swap changes nothing and is followed *)
(* by the return; so the loop runs at most (inversions at the call) + 1    *)
(* cycles and returns; and on a range that is already sorted it returns    *)
(* after exactly one cycle, the range unchanged.                           *)
(***************************************************************************)
C9_CycleStep ==
    (pc = "fix_while" /\ cycles' = cycles + 1) =>
        /\ changed' => Inversions(arr', start, end) < Inversions(arr, start, end)
        /\ ~changed' => arr' = arr

C9_CleanCycleEnds == (pc = "fix_while" /\ ~changed) => pc' = "done"

C9_SortedInput ==
    (pc = "done" /\ end - start >= 2 /\ IsSortedRange(arr0, start, end)) =>
        (cycles = 1 /\ arr = arr0)

C9_CyclesBounded ==
    pc = "fix_while" => cycles <= Inversions(arr0, start, end) + 1

\* C9: every step of the loop keeps the four statements above.
C9_FixLoopTerminates ==
    [][C9_CycleStep /\ C9_CleanCycleEnds /\ C9_SortedInput' /\ C9_CyclesBounded']_vars

\* All elements equal, size >= 3: one cycle, no swap, returned.
C9_Witness ==
    /\ pc = "done"
    /\ end - start >= 2
    /\ \A i \in start..end : At(arr0, i) = At(arr0, start)
    /\ cycles = 1
    /\ arr = arr0

(***************************************************************************)
(* C3: for K buckets that are each non-decreasing (K = 0, K = 1, empty     *)
(* buckets and duplicate values included), alpayMultiBucketMerge returns   *)
(* with dest non-decreasing, as long as the buckets together, and holding  *)
(* exactly the values of the buckets with their multiplicities; what dest  *)
(* held before is gone.                                                    *)
(***************************************************************************)
C3_MergeIsSortedUnion ==
    (pc = "done" /\ AllSorted(buckets)) =>
        /\ IsSorted(dest)
        /\ Len(dest) = SumLen(buckets)
        /\ SameMultiset(dest, Concat(buckets))

\* Two full sorted buckets that share a value, merged.
C3_Witness ==
    /\ pc = "done"
    /\ Len(buckets) = MergeMaxK
    /\ AllSorted(buckets)
    /\ \A k \in DOMAIN buckets : Len(buckets[k]) = MergeMaxLen
    /\ Elems(buckets[1]) \cap Elems(buckets[2]) # {}
    /\ Cardinality(Elems(dest)) > 1
    /\ Len(dest) = MergeMaxK * MergeMaxLen

ItemsOf(b) == {x \in minHeap : x.bIndex = b}

(***************************************************************************)
(* C10: at the head of every iteration of the merge loop the heap holds at *)
(* most one item per bucket, and exactly one for each bucket with elements *)
(* not yet appended to dest; each item (value, bIndex, iIndex) has value = *)
(* buckets[bIndex][iIndex] and iIndex = the number of that bucket's        *)
(* elements already appended to dest; and when the buckets are             *)
(* non-decreasing, dest is non-decreasing and its last element is <= every *)
(* value in the heap.                                                      *)
(***************************************************************************)
C10_HeapInvariant ==
    pc = "merge_while" =>
        /\ \A x \in minHeap : x.bIndex \in 0..(Len(buckets) - 1)
        /\ \A b \in 0..(Len(buckets) - 1) :
              Cardinality(ItemsOf(b)) =
                  (IF At(consumed, b) < Len(At(buckets, b)) THEN 1 ELSE 0)
        /\ \A x \in minHeap :
              /\ x.iIndex = At(consumed, x.bIndex)
              /\ x.iIndex < Len(At(buckets, x.bIndex))
              /\ x.value = At(At(buckets, x.bIndex), x.iIndex)
        /\ AllSorted(buckets) =>
              /\ IsSorted(dest)
              /\ dest # <<>> => \A x \in minHeap : dest[Len(dest)] <= x.value

\* Mid-merge: something appended, one bucket partly consumed, and two items
\* of equal value in the heap.
C10_Witness ==
    /\ pc = "merge_while"
    /\ AllSorted(buckets)
    /\ dest # <<>>
    /\ Cardinality(minHeap) = 2
    /\ \E x \in minHeap : x.iIndex > 0
    /\ \A x, y \in minHeap : x.value = y.value

(***************************************************************************)
(* C6: for every range size above ALPAY_SMALL_THRESH the sample vector has *)
(* max(pivotCount, 2 * pivotCount) elements with pivotCount =              *)
(* max(2, floor(sqrt(size))); the two erases of cut = floor(0.15 * that)   *)
(* elements, when the guard lets them run, fit in the vector               *)
(* (2 * cut <= its length); and every index i * step the pivot loop reads, *)
(* 0 <= i < pivotCount, is at most m - 1 for the m samples left.           *)
(***************************************************************************)
C6_PivotReadsInBounds ==
    /\ pc = "pivot_trim" =>
          /\ Len(samples) = Max(PivotCount(RangeSize), 2 * PivotCount(RangeSize))
          /\ PivotCount(RangeSize) * PivotCount(RangeSize) <= RangeSize
          /\ TrimGuard(samples, PivotCount(RangeSize)) =>
                2 * Cut(Len(samples)) <= Len(samples)
    /\ pc \in {"pivot_pick", "done"} =>
          \A k \in DOMAIN reads : 0 <= reads[k] /\ reads[k] <= Len(samples) - 1

\* A size whose samples were trimmed (cut >= 1) and whose pivots are all read.
C6_Witness ==
    /\ pc = "done"
    /\ Len(samples) < PivotSampleCount(PivotCount(RangeSize))
    /\ Len(reads) = PivotCount(RangeSize)
    /\ Len(reads) >= 10
    /\ reads[Len(reads)] = Len(reads) - 1

(***************************************************************************)
(* C1: when alpayFractalSortAdvanced(S, 0, len(S) - 1) returns, whatever   *)
(* the sample draws were, S is non-decreasing and is a permutation (same   *)
(* length, same multiset) of what it was at the call.                      *)
(***************************************************************************)
C1_SortedPermutation ==
    (pc = "done" /\ start = 0 /\ end = Len(arr0) - 1) =>
        /\ IsSorted(arr)
        /\ SameMultiset(arr, arr0)

\* A whole vector above the threshold, not sorted at the call, returned
\* after a recursive call that itself partitioned.
C1_Witness ==
    /\ pc = "done"
    /\ start = 0
    /\ end = Len(arr0) - 1
    /\ Len(arr0) > ALPAY_SMALL_THRESH
    /\ calls >= 2
    /\ ~IsSorted(arr0)
    /\ IsSorted(arr)

FrameInput(f) == Slice(f.vec, f.start, f.end)

(***************************************************************************)
(* C2: alpayFractalSortAdvanced returns on every finite input, vectors of  *)
(* more than ALPAY_SMALL_THRESH equal elements included, whatever the      *)
(* sample draws are.  A call returns only after the calls it makes have    *)
(* returned, and what a call does is fixed by the contents of its range    *)
(* and its draws; so if every call returns, no call is ever made from      *)
(* within a call on a range of the same contents (the same draws would     *)
(* make it again and again).  Stated on the call stack: no activation      *)
(* record has the range contents of a record below it.                     *)
(***************************************************************************)
C2_EveryCallReturns ==
    \A i, j \in DOMAIN stack :
        i < j => FrameInput(stack[j]) # FrameInput(stack[i])

FrameSize(f) == f.end - f.start + 1

(***************************************************************************)
(* C7: every recursive call alpayFractalSortAdvanced makes is on a bucket  *)
(* strictly smaller than the range (end - start + 1) of the call making    *)
(* it.                                                                     *)
(***************************************************************************)
C7_RecursionShrinks ==
    \A j \in DOMAIN stack :
        j > 1 => FrameSize(stack[j]) < FrameSize(stack[j - 1])

Partitioned(f) ==
    LET pivotCount == PivotCount(FrameSize(f))
    IN  /\ Len(f.pivots) = pivotCount
        /\ IsSorted(f.pivots)
        /\ Len(f.buckets) = pivotCount + 1
        /\ SumLen(f.buckets) = FrameSize(f)
        /\ SameMultiset(Concat(f.buckets), FrameInput(f))
        /\ \A b \in 0..pivotCount : \A x \in Elems(At(f.buckets, b)) :
              /\ b < pivotCount => x < At(f.pivots, b)
              /\ \A c \in 0..(b - 1) : x >= At(f.pivots, c)
        /\ \A b, c \in 0..pivotCount :
              b < c => \A x \in Elems(At(f.buckets, b)) :
                         \A y \in Elems(At(f.buckets, c)) : x <= y

(***************************************************************************)
(* C8: after the distribute step the pivots are ascending and the          *)
(* pivotCount + 1 buckets partition the range: their sizes add up to       *)
(* end - start + 1 and together they hold the multiset of the range;       *)
(* bucket 0 holds only values < pivots[0], bucket i only values in         *)
(* [pivots[i-1], pivots[i]), the last bucket only values >= the last       *)
(* pivot (each x is in the bucket of the first pivot above it); and every  *)
(* value of a bucket is <= every value of a later bucket.                  *)
(***************************************************************************)
C8_BucketsPartition ==
    \A j \in DOMAIN stack :
        stack[j].pc \in {"recurse", "copy"} => Partitioned(stack[j])

\* Just distributed: distinct pivots, and elements in the first, an interior
\* and the last bucket, one of them equal to a pivot.
C8_Witness ==
    /\ stack # <<>>
    /\ Top.pc = "recurse"
    /\ Top.b = 0
    /\ Cardinality(Elems(Top.pivots)) > 1
    /\ At(Top.buckets, 0) # <<>>
    /\ At(Top.buckets, Len(Top.buckets) - 1) # <<>>
    /\ \E b \in 1..(Len(Top.buckets) - 2) :
          Elems(At(Top.buckets, b)) \cap Elems(Top.pivots) # {}

(***************************************************************************)
(* C5: neither alpayTripleFixBidirectional(seq, start, end) nor            *)
(* alpayFractalSortAdvanced(seq, start, end) changes the length of seq or  *)
(* an element at an index outside [start, end]; with start > end the whole *)
(* of seq is left as it was; and in the driver the merged sequence that is *)
(* copied back has exactly end - start + 1 elements.                       *)
(***************************************************************************)
C5_FrameUntouched ==
    /\ Len(arr) = Len(arr0)
    /\ SameOutside(arr, arr0, start, end)
    /\ start > end => arr = arr0
    /\ \A j \in DOMAIN stack :
          stack[j].pc = "copy" => Len(stack[j].mergedAll) = FrameSize(stack[j])

\* The driver has returned from a range above the threshold that starts
\* after the first element, and the range was changed.
C5_Witness ==
    /\ pc = "done"
    /\ calls >= 1
    /\ start > 0
    /\ end - start + 1 > ALPAY_SMALL_THRESH
    /\ Slice(arr, start, end) # Slice(arr0, start, end)
    /\ At(arr0, 0) # At(arr0, start)

====
